---- MODULE Spec2Model ----
(***************************************************************************)
(* The /mcp session layer of the gateway (the Express handlers of the      *)
(* server file, src/unnamed/part_010 lines 21-182): the session table      *)
(* `transports`, the three handlers POST, GET and DELETE, and the two      *)
(* callbacks the server gives to each StreamableHTTPServerTransport        *)
(* (onsessioninitialized, onclose).                                        *)
(*                                                                         *)
(* Node runs one handler at a time between its awaits, so an action is the *)
(* code of one handler from one suspension point to the next.  An await    *)
(* that no statement reading or writing the table follows (the last await  *)
(* of the POST and of the GET handler) is folded into the step that        *)
(* reaches it: the action then also draws how the awaited promise settles. *)
(*                                                                         *)
(* The transport is a library object.  What the handlers see of it is      *)
(* modelled at the place they call it.  handleRequest either does not act  *)
(* on the message (it answers 4xx by itself: "refused"; or it fails:       *)
(* "faulted") or acts on it: an initialize message on a transport without  *)
(* a session draws the id from sessionIdGenerator and calls                *)
(* onsessioninitialized; a DELETE runs close(), which calls onclose.  The  *)
(* promise of a call that acted resolves or rejects.                       *)
(***************************************************************************)
EXTENDS Integers, FiniteSets, Sequences, TLC

\* ------------------------------------------------------------------ bounds
\* Transports the server may construct (one per admitted initialize POST).
MaxTransports == 2
\* Handlers that can be suspended at an await at the same time.
MaxInFlight == 2

\* ------------------------------------------------------------------ values
Undefined == "undefined"
EmptyString == ""

TransportPool == <<"t1", "t2", "t3", "t4", "t5">>
Transports == {TransportPool[i] : i \in 1..MaxTransports}

\* The values randomUUID() can return.
UUIDPool == <<"uuid-1", "uuid-2", "uuid-3", "uuid-4", "uuid-5">>
UUIDs == {UUIDPool[i] : i \in 1..MaxTransports}

\* `transports` is created by the object literal {}: a lookup of a key that
\* is not an own property falls through to Object.prototype.
ProtoKeys == {"constructor"}
ObjectPrototypeMember == "Object.prototype member"

\* req.headers['mcp-session-id']: absent, empty, or any string.
HeaderValues == {Undefined, EmptyString} \cup UUIDs \cup ProtoKeys

\* req.body after express.json(): an initialize request or anything else.
Bodies == {"initialize", "other"}

\* How a call of handleRequest goes.
NotActed == {"refused", "faulted"}
Acted == {"resolved", "rejected", "rejected after headers"}
CallOutcomes == NotActed \cup Acted

\* 4xx statuses the transport answers with when it refuses a message.
TransportRefusals == {400, 406}

VARIABLES
    transports,   \* the session table: own properties of `transports`
    transport,    \* the transport objects: sessionId, closed
    nTransports,  \* transports constructed so far
    pending,      \* the handlers suspended at an await that code follows
    last,         \* the last request a handler step was run for, with its answer
    issued,       \* history: ids drawn from sessionIdGenerator
    terminated    \* history: ids whose entry was removed from the table

\* The state of the rest of the server, which the /mcp handlers do not touch.
VARIABLES
    env,          \* process.env: which credentials and secrets are configured
    calls,        \* the tool invocations of a session: one record per call slot
    job,          \* a call of Comput3Client.waitForJob, and the clock
    hook,         \* the last webhook request an endpoint handled, with its answer
    verdict,      \* the last call of a signature verification function
    proxy         \* the stdio proxy: its client, the connections, its requests

toolVars == <<env, calls>>

jobVars == <<job>>

hookVars == <<hook, verdict>>

proxyVars == <<proxy>>

otherVars == <<toolVars, jobVars, hookVars, proxyVars>>

sessionVars == <<transports, transport, nTransports, pending, last, issued, terminated>>

vars == <<sessionVars, otherVars>>

\* What the tool handlers, and what waitForJob, leave alone.
outsideTools == <<sessionVars, jobVars, hookVars, proxyVars>>

outsideJob == <<sessionVars, toolVars, hookVars, proxyVars>>

\* What the webhook endpoints and the verification functions leave alone.
outsideHooks == <<sessionVars, toolVars, jobVars, proxyVars>>

\* What the proxy, a process of its own, leaves alone.
outsideProxy == <<sessionVars, toolVars, jobVars, hookVars>>

\* ------------------------------------------------------- JavaScript values
\* if (x): undefined and '' are falsy, every other value used here is truthy.
Truthy(x) == x /= Undefined /\ x /= EmptyString

\* transports[key]
Lookup(tbl, key) ==
    IF key \in DOMAIN tbl THEN tbl[key]
    ELSE IF key \in ProtoKeys THEN ObjectPrototypeMember
    ELSE Undefined

\* A removal as Array.splice(indexOf(key), 1) would do it: an absent key
\* removes another entry.
DeleteKeySplice(tbl, key) ==
    IF key \in DOMAIN tbl /\ tbl[key] /= Undefined
    THEN [tbl EXCEPT ![key] = Undefined]
    ELSE IF \E k \in DOMAIN tbl : tbl[k] /= Undefined
         THEN [tbl EXCEPT ![CHOOSE k \in DOMAIN tbl : tbl[k] /= Undefined] = Undefined]
         ELSE tbl

\* delete transports[key]
DeleteKey(tbl, key) ==
    IF key \in DOMAIN tbl THEN [tbl EXCEPT ![key] = Undefined] ELSE tbl

\* isInitializeRequest(req.body)
isInitializeRequest(body) == body = "initialize"

\* ----------------------------------------------------- the server's callbacks
\* A generator that returns one fixed id.
sessionIdGeneratorFixed(uuid) == UUIDPool[1]

\* sessionIdGenerator: () => randomUUID()
sessionIdGenerator(uuid) == uuid

\* A callback that leaves the registration to a later moment.
onsessioninitializedLater(tbl, sessionId, t) == tbl

\* onsessioninitialized: transports[sessionId] = transport
onsessioninitialized(tbl, sessionId, t) == [tbl EXCEPT ![sessionId] = t]

\* An onclose that leaves the entry in the table.
oncloseKeepsEntry(tbl, sessionId) == tbl

\* transport.onclose, with the transport's sessionId
onclose(tbl, sessionId) ==
    IF Truthy(sessionId) THEN DeleteKey(tbl, sessionId) ELSE tbl

\* A cleanup that empties the table.
DeleteCleanupClears(tbl, sessionId) == [key \in DOMAIN tbl |-> Undefined]

\* The cleanup after the await of the DELETE handler.
DeleteCleanup(tbl, sessionId) ==
    IF Truthy(sessionId) THEN DeleteKey(tbl, sessionId) ELSE tbl

\* A catch block that drops the session.
PostCatchDeregisters(tbl, sessionId) ==
    IF Truthy(sessionId) THEN DeleteKey(tbl, sessionId) ELSE tbl

\* The catch block of the POST handler writes nothing to the table.
PostCatch(tbl, sessionId) == tbl

\* The branch with the test of the header left out of the second condition.
PostBranchNoHeaderTest(sessionId, found, body) ==
    IF Truthy(sessionId) /\ Truthy(found) THEN "reuse"
    ELSE IF isInitializeRequest(body) THEN "initialize"
    ELSE "invalid"

\* The branch with the test of the body left out of the second condition.
PostBranchNoBodyTest(sessionId, found, body) ==
    IF Truthy(sessionId) /\ Truthy(found) THEN "reuse"
    ELSE IF ~Truthy(sessionId) THEN "initialize"
    ELSE "invalid"

\* The branch the POST handler takes.
PostBranch(sessionId, found, body) ==
    IF Truthy(sessionId) /\ Truthy(found) THEN "reuse"
    ELSE IF ~Truthy(sessionId) /\ isInitializeRequest(body) THEN "initialize"
    ELSE "invalid"

\* The test that opens the GET and the DELETE handler.
MissingSession(sessionId, found) == ~Truthy(sessionId) \/ ~Truthy(found)

\* ------------------------------------------------------------- the state
\* The environment and the call slots as the /mcp session layer leaves them.
NoEnv == {}
NoCalls == <<>>
NoJob == [pc |-> "idle", startTime |-> 0, now |-> 0, maxWaitTime |-> 0,
          polled |-> "none", sawTerminal |-> FALSE, out |-> "none"]
NoHook == [endpoint |-> "none"]
NoVerdict == [fn |-> "none"]
NoProxy == [client |-> 0]

\* A request and its answer.  sidWas is history: what the table's history
\* said of the request's session id when the request was received.  sdk is
\* how the call of the transport went ("none": no transport was called;
\* "closing": the transport closed and its promise is not settled yet).
NoRequest ==
    [pc |-> "none", method |-> Undefined, body |-> Undefined, sidWas |-> "absent",
     transport |-> Undefined, sdk |-> "none", status |-> 0, errCode |-> 0,
     uncaught |-> FALSE, sessions |-> 0]

NewTransport == [sessionId |-> Undefined, closed |-> FALSE]

Init ==
    /\ transports = [u \in UUIDs |-> Undefined]
    /\ transport = [t \in Transports |-> NewTransport]
    /\ nTransports = 0
    /\ pending = {}
    /\ last = NoRequest
    /\ issued = {}
    /\ terminated = {}
    /\ env = NoEnv
    /\ calls = NoCalls
    /\ job = NoJob
    /\ hook = NoHook
    /\ verdict = NoVerdict
    /\ proxy = NoProxy

SidWas(sid) ==
    IF sid = Undefined THEN "absent"
    ELSE IF sid = EmptyString THEN "empty"
    ELSE IF sid \in terminated THEN "terminated"
    ELSE IF sid \in issued THEN "live"
    ELSE "never"

Received(method, sid, body) ==
    [NoRequest EXCEPT !.method = method, !.body = body, !.sidWas = SidWas(sid)]

\* History of the table, kept by every action that writes it.
Track(newTable) ==
    terminated' = terminated \cup
        {u \in UUIDs : transports[u] /= Undefined /\ newTable[u] = Undefined}

\* The handler ends: what it answered.
Done(r, sdk, status, errCode, uncaught) ==
    [r EXCEPT !.pc = "done", !.sdk = sdk, !.status = status, !.errCode = errCode,
              !.uncaught = uncaught]

\* The handler is suspended at an await.
Suspended(r, pc, sdk) == [r EXCEPT !.pc = pc, !.sdk = sdk]

CanSuspend == Cardinality(pending) < MaxInFlight

\* ------------------------------------------------ the transport, as called
\* Whether handleRequest can act on the message: an initialize message only
\* on a transport that has no session yet, every other message only on a
\* transport that has one.
TransportAccepts(t, method, body) ==
    IF method = "POST" /\ isInitializeRequest(body)
    THEN transport[t].sessionId = Undefined
    ELSE transport[t].sessionId /= Undefined

CallGoes(t, method, body, outcome) ==
    outcome \in Acted => TransportAccepts(t, method, body)

\* ------------------------------------------------------------ POST /mcp
\* Lines 91-96, 123-134: no valid session id.
PostInvalid(sid, body) ==
    /\ PostBranch(sid, Lookup(transports, sid), body) = "invalid"
    /\ last' = Done(Received("POST", sid, body), "none", 400, -32000, FALSE)
    /\ UNCHANGED <<transports, transport, nTransports, pending, issued, terminated>>
    /\ UNCHANGED otherVars

\* Lines 91-122: a transport is constructed; await server.connect.
PostInitialize(sid, body) ==
    /\ PostBranch(sid, Lookup(transports, sid), body) = "initialize"
    /\ nTransports < MaxTransports
    /\ CanSuspend
    /\ LET t == TransportPool[nTransports + 1] IN
         /\ nTransports' = nTransports + 1
         /\ last' = Suspended([Received("POST", sid, body) EXCEPT !.transport = t],
                              "connect", "none")
         /\ pending' = pending \cup {last'}
    /\ UNCHANGED <<transports, transport, issued, terminated>>
    /\ UNCHANGED otherVars

\* Lines 91-98, 137-150: the value found is no transport (it has no
\* handleRequest): TypeError, thrown inside the try.
PostNotATransport(sid, body) ==
    /\ PostBranch(sid, Lookup(transports, sid), body) = "reuse"
    /\ Lookup(transports, sid) \notin Transports
    /\ transports' = PostCatch(transports, Undefined)
    /\ Track(transports')
    /\ last' = Done([Received("POST", sid, body) EXCEPT
                        !.transport = Lookup(transports, sid)],
                    "none", 500, -32603, FALSE)
    /\ UNCHANGED <<transport, nTransports, pending, issued>>
    /\ UNCHANGED otherVars

\* What the POST handler answers once handleRequest was called on t.
PostAnswer(r, t, outcome, refusal) ==
    CASE outcome = "refused" -> Done(r, "refused", refusal, 0, FALSE)
      [] outcome = "faulted" -> Done(r, "faulted", 500, -32603, FALSE)
      [] outcome = "resolved" -> Done(r, "resolved", 200, 0, FALSE)
      [] outcome = "rejected" -> Done(r, "rejected", 500, -32603, FALSE)
      [] outcome = "rejected after headers" ->
             Done(r, "rejected after headers", 200, 0, FALSE)

\* Whether the POST handler ran its catch block.
PostCaught(outcome) == outcome \in {"faulted", "rejected", "rejected after headers"}

\* Lines 91-98, 137-150: the request is handed to the registered transport.
PostReuse(sid, body, outcome, refusal) ==
    /\ PostBranch(sid, Lookup(transports, sid), body) = "reuse"
    /\ Lookup(transports, sid) \in Transports
    /\ LET t == Lookup(transports, sid) IN
         /\ CallGoes(t, "POST", body, outcome)
         /\ transports' = IF PostCaught(outcome)
                          THEN PostCatch(transports, transport[t].sessionId)
                          ELSE transports
         /\ Track(transports')
         /\ last' = PostAnswer([Received("POST", sid, body) EXCEPT !.transport = t],
                               t, outcome, refusal)
    /\ UNCHANGED <<transport, nTransports, pending, issued>>
    /\ UNCHANGED otherVars

\* Lines 122-150: server.connect resolved and handleRequest is called with
\* the initialize message; `uuid` is what randomUUID returns if it is called.
PostConnected(p, uuid, outcome, refusal) ==
    /\ p \in pending
    /\ p.pc = "connect"
    /\ LET t == p.transport
           id == sessionIdGenerator(uuid)
           initialized == IF outcome \in Acted
                          THEN onsessioninitialized(transports, id, t)
                          ELSE transports
       IN  /\ CallGoes(t, "POST", p.body, outcome)
           /\ transport' = IF outcome \in Acted
                           THEN [transport EXCEPT ![t].sessionId = id]
                           ELSE transport
           /\ issued' = IF outcome \in Acted THEN issued \cup {id} ELSE issued
           /\ transports' = IF PostCaught(outcome)
                            THEN PostCatch(initialized, IF outcome \in Acted THEN id ELSE Undefined)
                            ELSE initialized
           /\ Track(transports')
           /\ last' = PostAnswer(p, t, outcome, refusal)
    /\ pending' = pending \ {p}
    /\ UNCHANGED nTransports
    /\ UNCHANGED otherVars

\* Lines 122, 138-150: server.connect rejected.
PostConnectFailed(p) ==
    /\ p \in pending
    /\ p.pc = "connect"
    /\ transports' = PostCatch(transports, transport[p.transport].sessionId)
    /\ Track(transports')
    /\ last' = Done(p, "none", 500, -32603, FALSE)
    /\ pending' = pending \ {p}
    /\ UNCHANGED <<transport, nTransports, issued>>
    /\ UNCHANGED otherVars

\* ------------------------------------------------------------- GET /mcp
\* Lines 154-160.
GetMissing(sid) ==
    /\ MissingSession(sid, Lookup(transports, sid))
    /\ last' = Done(Received("GET", sid, Undefined), "none", 400, 0, FALSE)
    /\ UNCHANGED <<transports, transport, nTransports, pending, issued, terminated>>
    /\ UNCHANGED otherVars

\* Lines 154-163: the value found is no transport: TypeError outside any
\* try, the handler's promise rejects.
GetNotATransport(sid) ==
    /\ ~MissingSession(sid, Lookup(transports, sid))
    /\ Lookup(transports, sid) \notin Transports
    /\ last' = Done([Received("GET", sid, Undefined) EXCEPT
                        !.transport = Lookup(transports, sid)],
                    "none", 0, 0, TRUE)
    /\ UNCHANGED <<transports, transport, nTransports, pending, issued, terminated>>
    /\ UNCHANGED otherVars

\* Lines 154-163: the request is handed to the registered transport.
GetRouted(sid, outcome, refusal) ==
    /\ ~MissingSession(sid, Lookup(transports, sid))
    /\ Lookup(transports, sid) \in Transports
    /\ outcome /= "rejected after headers"
    /\ LET t == Lookup(transports, sid)
           r == [Received("GET", sid, Undefined) EXCEPT !.transport = t]
       IN  /\ CallGoes(t, "GET", Undefined, outcome)
           /\ last' = CASE outcome = "refused" -> Done(r, "refused", refusal, 0, FALSE)
                        [] outcome = "faulted" -> Done(r, "faulted", 0, 0, TRUE)
                        [] outcome = "resolved" -> Done(r, "resolved", 200, 0, FALSE)
                        [] outcome = "rejected" -> Done(r, "rejected", 0, 0, TRUE)
    /\ UNCHANGED <<transports, transport, nTransports, pending, issued, terminated>>
    /\ UNCHANGED otherVars

\* ---------------------------------------------------------- DELETE /mcp
\* Lines 167-173.
DeleteMissing(sid) ==
    /\ MissingSession(sid, Lookup(transports, sid))
    /\ last' = Done(Received("DELETE", sid, Undefined), "none", 400, 0, FALSE)
    /\ UNCHANGED <<transports, transport, nTransports, pending, issued, terminated>>
    /\ UNCHANGED otherVars

\* Lines 167-176: the value found is no transport.
DeleteNotATransport(sid) ==
    /\ ~MissingSession(sid, Lookup(transports, sid))
    /\ Lookup(transports, sid) \notin Transports
    /\ last' = Done([Received("DELETE", sid, Undefined) EXCEPT
                        !.transport = Lookup(transports, sid)],
                    "none", 0, 0, TRUE)
    /\ UNCHANGED <<transports, transport, nTransports, pending, issued, terminated>>
    /\ UNCHANGED otherVars

\* Lines 167-181: the request is handed to the registered transport.  A
\* transport that acts on it runs close(), which calls onclose, and the
\* handler waits for the promise; one that refuses it has answered, and the
\* cleanup follows; one that fails leaves the handler by the exception.
DeleteRouted(sid, outcome, refusal) ==
    /\ ~MissingSession(sid, Lookup(transports, sid))
    /\ Lookup(transports, sid) \in Transports
    /\ outcome \in {"refused", "faulted", "resolved"}
    /\ LET t == Lookup(transports, sid)
           r == [Received("DELETE", sid, Undefined) EXCEPT !.transport = t]
       IN  /\ CallGoes(t, "DELETE", Undefined, outcome)
           /\ CASE outcome = "refused" ->
                     /\ transports' = DeleteCleanup(transports, transport[t].sessionId)
                     /\ last' = Done(r, "refused", refusal, 0, FALSE)
                     /\ UNCHANGED <<transport, pending>>
                [] outcome = "faulted" ->
                     /\ last' = Done(r, "faulted", 0, 0, TRUE)
                     /\ UNCHANGED <<transports, transport, pending>>
                [] outcome = "resolved" ->
                     /\ CanSuspend
                     /\ transport' = [transport EXCEPT ![t].closed = TRUE]
                     /\ transports' = onclose(transports, transport[t].sessionId)
                     /\ last' = Suspended(r, "delete", "closing")
                     /\ pending' = pending \cup {last'}
           /\ Track(transports')
    /\ UNCHANGED <<nTransports, issued>>
    /\ UNCHANGED otherVars

\* Lines 176-181: the promise of handleRequest settles; the cleanup runs
\* only when it resolved.
DeleteHandled(p, ok) ==
    /\ p \in pending
    /\ p.pc = "delete"
    /\ IF ok
       THEN /\ transports' = DeleteCleanup(transports, transport[p.transport].sessionId)
            /\ last' = Done(p, "resolved", 200, 0, FALSE)
       ELSE /\ transports' = transports
            /\ last' = Done(p, "rejected", 0, 0, TRUE)
    /\ Track(transports')
    /\ pending' = pending \ {p}
    /\ UNCHANGED <<transport, nTransports, issued>>
    /\ UNCHANGED otherVars

\* ------------------------------------------------------ the specifications
\* randomUUID() as a generator of unique values: it returns a value it never
\* returned before (which one is immaterial: the first unused of the pool).
randomUUID ==
    {UUIDPool[i] : i \in {j \in 1..MaxTransports : j = Cardinality(issued) + 1}}

Next ==
    \/ \E sid \in HeaderValues, body \in Bodies : PostInvalid(sid, body)
    \/ \E sid \in HeaderValues, body \in Bodies : PostInitialize(sid, body)
    \/ \E sid \in HeaderValues, body \in Bodies : PostNotATransport(sid, body)
    \/ \E sid \in HeaderValues, body \in Bodies, outcome \in CallOutcomes,
          refusal \in TransportRefusals : PostReuse(sid, body, outcome, refusal)
    \/ \E p \in pending, uuid \in randomUUID, outcome \in CallOutcomes,
          refusal \in TransportRefusals : PostConnected(p, uuid, outcome, refusal)
    \/ \E p \in pending : PostConnectFailed(p)
    \/ \E sid \in HeaderValues : GetMissing(sid)
    \/ \E sid \in HeaderValues : GetNotATransport(sid)
    \/ \E sid \in HeaderValues, outcome \in CallOutcomes, refusal \in TransportRefusals :
          GetRouted(sid, outcome, refusal)
    \/ \E sid \in HeaderValues : DeleteMissing(sid)
    \/ \E sid \in HeaderValues : DeleteNotATransport(sid)
    \/ \E sid \in HeaderValues, outcome \in CallOutcomes, refusal \in TransportRefusals :
          DeleteRouted(sid, outcome, refusal)
    \/ \E p \in pending, ok \in BOOLEAN : DeleteHandled(p, ok)

Spec == Init /\ [][Next]_vars

\* randomUUID() as a random value: any value, one it returned before
\* included.
anyUUID == UUIDs

NextAnyUUID ==
    \/ \E sid \in HeaderValues, body \in Bodies : PostInvalid(sid, body)
    \/ \E sid \in HeaderValues, body \in Bodies : PostInitialize(sid, body)
    \/ \E sid \in HeaderValues, body \in Bodies : PostNotATransport(sid, body)
    \/ \E sid \in HeaderValues, body \in Bodies, outcome \in CallOutcomes,
          refusal \in TransportRefusals : PostReuse(sid, body, outcome, refusal)
    \/ \E p \in pending, uuid \in anyUUID, outcome \in CallOutcomes,
          refusal \in TransportRefusals : PostConnected(p, uuid, outcome, refusal)
    \/ \E p \in pending : PostConnectFailed(p)
    \/ \E sid \in HeaderValues : GetMissing(sid)
    \/ \E sid \in HeaderValues : GetNotATransport(sid)
    \/ \E sid \in HeaderValues, outcome \in CallOutcomes, refusal \in TransportRefusals :
          GetRouted(sid, outcome, refusal)
    \/ \E sid \in HeaderValues : DeleteMissing(sid)
    \/ \E sid \in HeaderValues : DeleteNotATransport(sid)
    \/ \E sid \in HeaderValues, outcome \in CallOutcomes, refusal \in TransportRefusals :
          DeleteRouted(sid, outcome, refusal)
    \/ \E p \in pending, ok \in BOOLEAN : DeleteHandled(p, ok)

SpecAnyUUID == Init /\ [][NextAnyUUID]_vars

\* ------------------------------------------------------ GET /health, GET /
\* Object.keys(transports): the own keys of the table.
ObjectKeysOfTransports == {u \in UUIDs : transports[u] /= Undefined}

\* The count, were it of every id that sessionIdGenerator ever returned.
healthSessionsEverIssued == Cardinality(issued)

\* sessions: Object.keys(transports).length
healthSessions == Cardinality(ObjectKeysOfTransports)

\* app.get('/health'): res.json({status: 'healthy', ..., sessions})
GetHealth ==
    /\ last' = [Done(Received("GET /health", Undefined, Undefined), "none", 200, 0, FALSE)
                   EXCEPT !.sessions = healthSessions]
    /\ UNCHANGED <<transports, transport, nTransports, pending, issued, terminated>>
    /\ UNCHANGED otherVars

\* app.get('/'): res.json({name, version, description, endpoints, tools, resources})
GetRoot ==
    /\ last' = Done(Received("GET /", Undefined, Undefined), "none", 200, 0, FALSE)
    /\ UNCHANGED <<transports, transport, nTransports, pending, issued, terminated>>
    /\ UNCHANGED otherVars

NextHealth ==
    \/ Next
    \/ GetHealth
    \/ GetRoot

SpecHealth == Init /\ [][NextHealth]_vars

\* ============================================================ tool calls
\* The tool handlers registered by registerAllTools, as the MCP server runs
\* them for the tools/call requests of one session.  A handler is an async
\* function: an action is its code from one await to the next.  The remote
\* side (the chain's RPC relay, a payment API, the AI API) settles an await
\* or never does.

\* Concurrent tool invocations of the session.
MaxCalls == 2
CallSlots == 1..MaxCalls

\* One tool of each shape of handler.
Tools ==
    {"calculate", "gig-marketplace-get-gig", "gig-marketplace-create-gig",
     "coinpayments-get-rates", "comput3-generate-gig-data"}

\* The credentials the handlers read from process.env.
EnvNames == {"HEDERA_PRIVATE_KEY", "COINPAYMENTS_KEYS", "COMPUT3_API_KEY"}

\* The credential a handler tests before its first remote call.
Credential(tool) ==
    CASE tool = "gig-marketplace-create-gig" -> "HEDERA_PRIVATE_KEY"
      [] tool = "coinpayments-get-rates" -> "COINPAYMENTS_KEYS"
      [] tool = "comput3-generate-gig-data" -> "COMPUT3_API_KEY"
      [] OTHER -> Undefined

\* The awaits of a handler, in order.
Awaits(tool) ==
    CASE tool = "gig-marketplace-get-gig" -> <<"contract.getGig">>
      [] tool = "gig-marketplace-create-gig" ->
             <<"createGig.estimateGas", "contract.createGig", "tx.wait">>
      [] tool = "coinpayments-get-rates" -> <<"fetch", "response.json">>
      [] tool = "comput3-generate-gig-data" -> <<"fetch", "response.json">>
      [] OTHER -> <<>>

\* How an awaited remote call can settle, as the handler sees it: the
\* promise rejects; a fetch resolves with a response that is not ok, or the
\* API's JSON carries an error; the AI's text is not JSON.
RemoteOutcomes(tool, call) ==
    CASE call = "fetch" -> {"resolved", "rejected", "error response"}
      [] call = "response.json" /\ tool = "coinpayments-get-rates" ->
             {"resolved", "rejected", "error response"}
      [] call = "response.json" /\ tool = "comput3-generate-gig-data" ->
             {"resolved", "rejected", "unparsable output"}
      [] OTHER -> {"resolved", "rejected"}

AllOutcomes == {"resolved", "rejected", "error response", "unparsable output"}

\* What a handler returns.
SuccessResult == [isError |-> FALSE, content |-> "text", cause |-> "none", rejects |-> FALSE]

\* A catch block that throws the error again.
HandlerCatchRethrows(cause) ==
    [isError |-> FALSE, content |-> "none", cause |-> cause, rejects |-> TRUE]

\* The catch block of a handler (and the return of create-gig's test of
\* PRIVATE_KEY): an error result with one text block.
HandlerCatch(cause) ==
    [isError |-> TRUE, content |-> "text", cause |-> cause, rejects |-> FALSE]

\* A handler that clears the credential it failed with.
EnvClearedOnFailure(e, tool) == e \ {Credential(tool)}

\* What a failing handler writes to the state the handlers share: nothing.
EnvAfterFailure(e, tool) == e

IdleCall == [pc |-> "idle", tool |-> Undefined, seen |-> <<>>, result |-> SuccessResult]

\* The handler from its call to its first await, or to its return.
Invoke(c, tool) ==
    /\ calls[c].pc \in {"idle", "done"}
    /\ IF Credential(tool) /= Undefined /\ Credential(tool) \notin env
       THEN /\ calls' = [calls EXCEPT ![c] =
                  [pc |-> "done", tool |-> tool, seen |-> <<>>,
                   result |-> HandlerCatch("missing credential")]]
            /\ env' = EnvAfterFailure(env, tool)
       ELSE /\ calls' = [calls EXCEPT ![c] =
                  [pc |-> IF Awaits(tool) = <<>> THEN "done" ELSE "await",
                   tool |-> tool, seen |-> <<>>, result |-> SuccessResult]]
            /\ env' = env
    /\ UNCHANGED outsideTools

\* The remote side settles the call a handler awaits.
RemoteSettles(c, outcome) ==
    /\ calls[c].pc = "await"
    /\ outcome \in RemoteOutcomes(calls[c].tool, Awaits(calls[c].tool)[Len(calls[c].seen) + 1])
    /\ calls' = [calls EXCEPT ![c] = [@ EXCEPT !.pc = "resume", !.seen = Append(@, outcome)]]
    /\ UNCHANGED <<env, outsideTools>>

\* The handler resumes after its await and runs to its next await, or to
\* its return: a call that failed throws, and the catch block returns.
Resume(c) ==
    /\ calls[c].pc = "resume"
    /\ LET tool == calls[c].tool
           seen == calls[c].seen
           outcome == seen[Len(seen)]
       IN  IF outcome = "resolved"
           THEN /\ calls' = [calls EXCEPT ![c] =
                      [@ EXCEPT !.pc = IF Len(seen) = Len(Awaits(tool))
                                       THEN "done" ELSE "await"]]
                /\ env' = env
           ELSE /\ calls' = [calls EXCEPT ![c] =
                      [@ EXCEPT !.pc = "done", !.result = HandlerCatch(outcome)]]
                /\ env' = EnvAfterFailure(env, tool)
    /\ UNCHANGED outsideTools

\* The session the tools are called on: registered, its transport open.
InitTools ==
    /\ transports = [u \in UUIDs |-> IF u = UUIDPool[1] THEN TransportPool[1] ELSE Undefined]
    /\ transport = [t \in Transports |->
           IF t = TransportPool[1]
           THEN [sessionId |-> UUIDPool[1], closed |-> FALSE]
           ELSE NewTransport]
    /\ nTransports = 1
    /\ pending = {}
    /\ last = NoRequest
    /\ issued = {UUIDPool[1]}
    /\ terminated = {}
    /\ env \in SUBSET EnvNames
    /\ calls = [c \in CallSlots |-> IdleCall]
    /\ job = NoJob
    /\ hook = NoHook
    /\ verdict = NoVerdict
    /\ proxy = NoProxy

NextTools ==
    \/ \E c \in CallSlots, tool \in Tools : Invoke(c, tool)
    \/ \E c \in CallSlots, outcome \in AllOutcomes : RemoteSettles(c, outcome)
    \/ \E c \in CallSlots : Resume(c)

SpecTools == InitTools /\ [][NextTools]_vars

\* Node runs the continuation of a handler whose await has settled; whether
\* a remote call ever settles is up to the remote side.
FairSpecTools == SpecTools /\ \A c \in CallSlots : WF_vars(Resume(c))

\* ------------------------------------------------- the names of the tools
\* The names each register function passes to server.registerTool.
registerGigMarketplaceTool ==
    {"gig-marketplace-get-gig", "gig-marketplace-get-active-gigs",
     "gig-marketplace-create-gig-data", "gig-marketplace-order-gig-data",
     "gig-marketplace-create-gig", "gig-marketplace-order-gig",
     "gig-marketplace-pay-order", "gig-marketplace-complete-order",
     "gig-marketplace-release-payment", "gig-marketplace-get-payment-page"}

registerNowPaymentsTool ==
    {"nowpayments-get-currencies", "nowpayments-get-estimate",
     "nowpayments-create-invoice", "nowpayments-get-payment-status",
     "nowpayments-verify-webhook"}

registerCoinbaseCommerceTool ==
    {"coinbase-commerce-create-charge", "coinbase-commerce-get-charge",
     "coinbase-commerce-list-charges", "coinbase-commerce-verify-webhook",
     "coinbase-commerce-cancel-charge", "coinbase-commerce-resolve-charge"}

registerComput3Tool ==
    {"comput3-text-completion", "comput3-image-generation",
     "comput3-video-generation", "comput3-job-status",
     "comput3-enhance-gig-description", "comput3-generate-gig-image",
     "comput3-generate-gig-data"}

\* registerAllTools(server): the tools the server holds.
registerAllTools ==
    registerGigMarketplaceTool \cup registerNowPaymentsTool
        \cup registerCoinbaseCommerceTool \cup registerComput3Tool

\* export const TOOL_NAMES, which GET / returns as `tools`.
TOOL_NAMES ==
    {"gig-marketplace-get-gig", "gig-marketplace-get-order",
     "gig-marketplace-get-provider-gigs", "gig-marketplace-get-client-orders",
     "gig-marketplace-get-stats", "gig-marketplace-get-active-gigs",
     "gig-marketplace-generate-payment-qr", "gig-marketplace-create-gig-data",
     "gig-marketplace-update-gig-data", "gig-marketplace-order-gig-data",
     "gig-marketplace-complete-order-data", "gig-marketplace-release-payment-data",
     "gig-marketplace-create-gig", "gig-marketplace-order-gig",
     "gig-marketplace-complete-order", "gig-marketplace-release-payment"}
        \cup registerNowPaymentsTool
        \cup registerCoinbaseCommerceTool
        \cup (registerComput3Tool \ {"comput3-generate-gig-data"})

\* The README's list of Available Tools.
AvailableTools ==
    {"gig-marketplace-get-gig", "gig-marketplace-get-order",
     "gig-marketplace-get-provider-gigs", "gig-marketplace-get-client-orders",
     "gig-marketplace-get-stats", "gig-marketplace-create-gig-data",
     "gig-marketplace-update-gig-data", "gig-marketplace-order-gig-data",
     "gig-marketplace-complete-order-data", "gig-marketplace-release-payment-data",
     "gig-marketplace-create-gig", "gig-marketplace-order-gig",
     "gig-marketplace-complete-order", "gig-marketplace-release-payment"}

\* What a tools/call ends in when the server holds no tool of the name, and
\* when it holds one and runs its handler.
UnknownTool == [isError |-> FALSE, content |-> "none", cause |-> "unknown tool", rejects |-> TRUE]

\* tools/call with `name`, on the first call slot.
CallToolByName(name) ==
    /\ calls' = [calls EXCEPT ![1] =
           [pc |-> "done", tool |-> name, seen |-> <<>>,
            result |-> IF name \in registerAllTools THEN SuccessResult ELSE UnknownTool]]
    /\ UNCHANGED env
    /\ UNCHANGED outsideTools

NextToolNames ==
    \E name \in TOOL_NAMES \cup AvailableTools \cup registerAllTools : CallToolByName(name)

SpecToolNames == InitTools /\ [][NextToolNames]_vars

\* ============================================================ waitForJob
\* Comput3Client.waitForJob(jobId, maxWaitTime = 300000).  Times are in
\* seconds (1000 ms): Date.now() is job.now.

\* const pollInterval = 2000
pollInterval == 2

\* maxWaitTime = 300000
DefaultMaxWaitTime == 300

\* The longest a call of getJobStatus takes when it settles, and the most a
\* timer is late.
MaxLatency == 2

\* The maxWaitTime arguments tried: none given, or a value.
MaxWaitTimeArgs ==
    {[given |-> FALSE, value |-> 0]} \cup {[given |-> TRUE, value |-> v] : v \in {0, 3, 5}}

\* status.status of a JobStatusResponse
JobStatuses == {"pending", "processing", "completed", "failed"}

\* status.status === 'completed' || status.status === 'failed'
IsTerminalStatus(status) == status = "completed" \/ status = "failed"

\* Date.now() - startTime < maxWaitTime
LoopTest(now, startTime, maxWaitTime) == now - startTime < maxWaitTime

\* What Date.now() is when waitForJob is called.
StartTimes == {0, 7}

\* waitForJob is called: startTime = Date.now().
CallWaitForJob(arg, clock) ==
    /\ job.pc \in {"idle", "returned", "thrown"}
    /\ job' = [NoJob EXCEPT !.pc = "test", !.now = clock, !.startTime = clock,
                            !.maxWaitTime = IF arg.given THEN arg.value
                                            ELSE DefaultMaxWaitTime]
    /\ UNCHANGED outsideJob

\* The while condition: poll again (getJobStatus sends its request), or
\* leave the loop and throw.
WhileTest ==
    /\ job.pc = "test"
    /\ job' = IF LoopTest(job.now, job.startTime, job.maxWaitTime)
              THEN [job EXCEPT !.pc = "polling"]
              ELSE [job EXCEPT !.pc = "thrown", !.out = "Job timed out"]
    /\ UNCHANGED outsideJob

\* The request of getJobStatus settles after some time: with a status, or
\* with an error (fetch rejects, or the response is not ok).
PollSettles(answer, latency) ==
    /\ job.pc = "polling"
    /\ job' = [job EXCEPT !.pc = "polled", !.polled = answer, !.now = @ + latency]
    /\ UNCHANGED outsideJob

\* After await this.getJobStatus: throw on, return the status, or sleep.
AfterPoll ==
    /\ job.pc = "polled"
    /\ job' = IF job.polled = "error"
              THEN [job EXCEPT !.pc = "thrown", !.out = "Comput3 API error"]
              ELSE IF IsTerminalStatus(job.polled)
              THEN [job EXCEPT !.pc = "returned", !.out = job.polled,
                               !.sawTerminal = TRUE]
              ELSE [job EXCEPT !.pc = "sleeping"]
    /\ UNCHANGED outsideJob

\* The timer of setTimeout(resolve, pollInterval) fires.
TimerFires(late) ==
    /\ job.pc = "sleeping"
    /\ job' = [job EXCEPT !.pc = "test", !.now = @ + pollInterval + late]
    /\ UNCHANGED outsideJob

InitWaitForJob ==
    /\ transports = [u \in UUIDs |-> Undefined]
    /\ transport = [t \in Transports |-> NewTransport]
    /\ nTransports = 0
    /\ pending = {}
    /\ last = NoRequest
    /\ issued = {}
    /\ terminated = {}
    /\ env = NoEnv
    /\ calls = NoCalls
    /\ job = NoJob
    /\ hook = NoHook
    /\ verdict = NoVerdict
    /\ proxy = NoProxy

NextWaitForJob ==
    \/ \E arg \in MaxWaitTimeArgs, clock \in StartTimes : CallWaitForJob(arg, clock)
    \/ WhileTest
    \/ \E answer \in JobStatuses \cup {"error"}, latency \in 0..MaxLatency :
          PollSettles(answer, latency)
    \/ AfterPoll
    \/ \E late \in 0..MaxLatency : TimerFires(late)

SpecWaitForJob == InitWaitForJob /\ [][NextWaitForJob]_vars

\* Node runs the function's own steps and fires its timer; whether the
\* request of getJobStatus ever settles is up to the remote side.
FairSpecWaitForJob ==
    /\ SpecWaitForJob
    /\ WF_vars(WhileTest)
    /\ WF_vars(AfterPoll)
    /\ WF_vars(\E late \in 0..MaxLatency : TimerFires(late))

\* ============================================================== webhooks
\* The four webhook endpoints of the HTTP server and the signature
\* verification functions of the payment tools.

\* The property names that occur in the bodies, in the order of their UTF-16
\* code units, which is the order of Array.prototype.sort() without a
\* comparator.
CodeUnitOrder ==
    <<"%", "10", "9", "amount", "contract_address", "currency", "data",
      "transaction_hash", "type">>

PropertyNames == {CodeUnitOrder[i] : i \in 1..Len(CodeUnitOrder)}

CodeUnitRank(k) == CHOOSE i \in 1..Len(CodeUnitOrder) : CodeUnitOrder[i] = k

\* A property name that is a canonical array index, and its number.
IsArrayIndex(k) == k \in {"9", "10"}
ToIndex(k) == IF k = "9" THEN 9 ELSE 10

\* A JavaScript value a body parses to: null, or an object whose props are
\* its own properties <<name, value>> in the order the engine enumerates
\* them: the array indices in ascending numeric order, then the other names
\* in the order they were created.
Null == [kind |-> "null", props |-> <<>>]
EmptyObject == [kind |-> "object", props |-> <<>>]

HasOwn(o, k) == \E i \in 1..Len(o.props) : o.props[i][1] = k

\* o[k]
Get(o, k) ==
    IF HasOwn(o, k)
    THEN o.props[CHOOSE i \in 1..Len(o.props) : o.props[i][1] = k][2]
    ELSE Undefined

IndexBefore(p, q) == ToIndex(p[1]) < ToIndex(q[1])
IsIndexProp(p) == IsArrayIndex(p[1])
IsNameProp(p) == ~IsArrayIndex(p[1])

OwnPropertyOrder(props) ==
    SortSeq(SelectSeq(props, IsIndexProp), IndexBefore) \o SelectSeq(props, IsNameProp)

\* o[k] = v
Put(o, k, v) ==
    IF HasOwn(o, k)
    THEN [o EXCEPT !.props =
            [i \in 1..Len(o.props) |->
                IF o.props[i][1] = k THEN <<k, v>> ELSE o.props[i]]]
    ELSE [o EXCEPT !.props = OwnPropertyOrder(Append(o.props, <<k, v>>))]

\* Object.keys(o)
ObjectKeys(o) == [i \in 1..Len(o.props) |-> o.props[i][1]]

\* A text: a request body as received, or a string the server builds.  pairs
\* are the members in the order the text writes them; spaced says that the
\* text holds white space between its tokens.
NoText == [format |-> "none", pairs |-> <<>>, spaced |-> FALSE]
NullText == [format |-> "null", pairs |-> <<>>, spaced |-> FALSE]

RECURSIVE ObjectOf(_, _)
ObjectOf(pairs, o) ==
    IF pairs = <<>> THEN o
    ELSE ObjectOf(Tail(pairs), Put(o, Head(pairs)[1], Head(pairs)[2]))

\* JSON.parse(text)
JSONparse(text) ==
    IF text.format = "null" THEN Null ELSE ObjectOf(text.pairs, EmptyObject)

\* JSON.stringify(value): no white space, the properties in enumeration order.
JSONstringify(value) ==
    IF value.kind = "null" THEN NullText
    ELSE [format |-> "json", pairs |-> value.props, spaced |-> FALSE]

\* app.use(express.json()): req.body of a JSON body is the parsed object, of
\* a body of another content type the empty object.
expressJson(text) ==
    IF text.format = "json" THEN JSONparse(text) ELSE EmptyObject

\* Object.keys(req.body).map(key => `${encodeURIComponent(key)}=${...}`).join('&')
postDataOf(body) ==
    [format |-> "form", pairs |-> body.props, spaced |-> FALSE]

KeyBefore(j, k) == CodeUnitRank(j) < CodeUnitRank(k)

RECURSIVE ReduceInto(_, _, _)
ReduceInto(keys, body, result) ==
    IF keys = <<>> THEN result
    ELSE ReduceInto(Tail(keys), body, Put(result, Head(keys), Get(body, Head(keys))))

\* Object.keys(body).sort().reduce((result, key) => { result[key] = body[key]; return result }, {})
sortedParams(body) == ReduceInto(SortSeq(ObjectKeys(body), KeyBefore), body, EmptyObject)

\* A signature: the value of a signature header or argument.  A digest is
\* crypto.createHmac(alg, key).update(text).digest('hex'), taken as free of
\* collisions and as holding a letter; digest('hex') writes lower case.
NoSignature ==
    [kind |-> "absent", prefix |-> "", alg |-> "none", key |-> "none",
     text |-> NoText, upper |-> FALSE]

OtherSignature == [NoSignature EXCEPT !.kind = "other"]

hexDigest(alg, key, text) ==
    [kind |-> "hex", prefix |-> "", alg |-> alg, key |-> key, text |-> text,
     upper |-> FALSE]

\* `sha256=${computedSignature}`
WithPrefix(prefix, sig) == [sig EXCEPT !.prefix = prefix]

toUpperCase(sig) == [sig EXCEPT !.upper = (sig.kind = "hex")]
toLowerCase(sig) == [sig EXCEPT !.upper = FALSE]

\* A header the request carries: not undefined, not ''.
SignatureTruthy(sig) == sig.kind /= "absent"

\* The secrets of the providers, as names of process.env.
SecretNames ==
    {"COINBASE_COMMERCE_WEBHOOK_SECRET", "COINPAYMENTS_IPN_SECRET",
     "NOWPAYMENTS_IPN_SECRET", "DIRECT_CRYPTO_WEBHOOK_SECRET"}

\* The value every configured secret has, and a key that is not the secret.
ConfiguredKey == "key"
ForeignKey == "another key"

\* process.env[name]
processEnv(name) == IF name \in env THEN ConfiguredKey ELSE Undefined

\* The body of an endpoint's response: res.json(...) or res.send(text), and
\* the members of the JSON object that name the event.
ResponseBody(endpoint, status) ==
    IF status /= 200
    THEN [format |-> "json", ids |-> {}]
    ELSE IF endpoint = "coinbase-commerce"
    THEN [format |-> "json", ids |-> {"event_id", "event_type", "charge_id"}]
    ELSE IF endpoint = "coinpayments"
    THEN [format |-> "text", ids |-> {}]
    ELSE IF endpoint = "nowpayments"
    THEN [format |-> "json", ids |-> {"payment_id", "payment_status"}]
    ELSE [format |-> "json", ids |-> {"transaction_hash", "order_id", "gig_id"}]

\* What an endpoint did with a request.  signed is the string the HMAC was
\* recomputed over (NoText: none was computed); equal says that a digest was
\* recomputed and found equal to the received signature.
Handled(endpoint, text, signature, body, signed, equal, status) ==
    [endpoint |-> endpoint, raw |-> text, signature |-> signature,
     body |-> body, signed |-> signed, equal |-> equal, status |-> status,
     ack |-> ResponseBody(endpoint, status)]

\* if (secret && signature) { computed = ...; if (computed !== signature) return 401 }
\* followed by the processing of the endpoint, which answers `processed`.
SignatureCheck(endpoint, text, signature, body, secret, expected, processed) ==
    IF Truthy(secret) /\ SignatureTruthy(signature)
    THEN IF expected /= signature
         THEN Handled(endpoint, text, signature, body, expected.text, FALSE, 401)
         ELSE Handled(endpoint, text, signature, body, expected.text, TRUE, processed)
    ELSE Handled(endpoint, text, signature, body, NoText, FALSE, processed)

\* const {...} = charge, where charge = req.body.data: a TypeError when data
\* is undefined, which the catch answers with 500.
CoinbaseCommerceProcessing(body) ==
    IF Get(body, "data") = Undefined THEN 500 ELSE 200

\* app.post('/webhook/coinbase-commerce')
CoinbaseCommerceWebhook(text, signature) ==
    LET body == expressJson(text)
        rawBody == JSONstringify(body)
        webhookSecret == processEnv("COINBASE_COMMERCE_WEBHOOK_SECRET")
    IN  SignatureCheck("coinbase-commerce", text, signature, body, webhookSecret,
                       hexDigest("sha256", webhookSecret, rawBody),
                       CoinbaseCommerceProcessing(body))

\* app.post('/webhook/coinpayments'): the processing destructures req.body,
\* an object, and switches on parseInt(status); nothing in it throws.
CoinPaymentsWebhook(text, signature) ==
    LET body == expressJson(text)
        postData == postDataOf(body)
        ipnSecret == processEnv("COINPAYMENTS_IPN_SECRET")
    IN  SignatureCheck("coinpayments", text, signature, body, ipnSecret,
                       hexDigest("sha512", ipnSecret, postData), 200)

\* app.post('/webhook/nowpayments')
NowPaymentsWebhook(text, signature) ==
    LET webhookBody == expressJson(text)
        sortedJson == JSONstringify(sortedParams(webhookBody))
        ipnSecret == processEnv("NOWPAYMENTS_IPN_SECRET")
    IN  SignatureCheck("nowpayments", text, signature, webhookBody, ipnSecret,
                       hexDigest("sha512", ipnSecret, sortedJson), 200)

RequiredFields == {"transaction_hash", "contract_address", "amount", "currency"}

\* if (!transaction_hash || !contract_address || !amount || !currency) return 400
DirectCryptoProcessing(body) ==
    IF \E f \in RequiredFields : ~Truthy(Get(body, f)) THEN 400 ELSE 200

\* app.post('/webhook/direct-crypto')
DirectCryptoWebhook(text, signature) ==
    LET webhookBody == expressJson(text)
        webhookSecret == processEnv("DIRECT_CRYPTO_WEBHOOK_SECRET")
        computedSignature == hexDigest("sha256", webhookSecret, JSONstringify(webhookBody))
        expectedSignature == WithPrefix("sha256=", computedSignature)
    IN  SignatureCheck("direct-crypto", text, signature, webhookBody, webhookSecret,
                       expectedSignature, DirectCryptoProcessing(webhookBody))

\* What a call of a verification function did: it returned `result`, or it
\* threw.
Returned(fn, payload, signature, result) ==
    [fn |-> fn, payload |-> payload, signature |-> signature,
     result |-> result, threw |-> FALSE]

Threw(fn, payload, signature) ==
    [fn |-> fn, payload |-> payload, signature |-> signature,
     result |-> FALSE, threw |-> TRUE]

\* The functions without the test of the secret: crypto.createHmac throws a TypeError
\* when its key is undefined.
SecretTestSkipped(secret, fn, payload, signature, rest) ==
    IF ~Truthy(secret) THEN Threw(fn, payload, signature) ELSE rest

\* if (!SECRET) return false, as the three functions begin.
SecretTest(secret, fn, payload, signature, rest) ==
    IF ~Truthy(secret) THEN Returned(fn, payload, signature, FALSE) ELSE rest

\* verifyIpnSignature, were it to compare the hex digits without their case.
verifyIpnSignatureIgnoringCase(postData, receivedHmac) ==
    LET secret == processEnv("COINPAYMENTS_IPN_SECRET")
        computedHmac == hexDigest("sha512", secret, postData)
    IN  SecretTest(secret, "verifyIpnSignature", postData, receivedHmac,
            Returned("verifyIpnSignature", postData, receivedHmac,
                     computedHmac = toLowerCase(receivedHmac)))

\* verifyIpnSignature(postData, receivedHmac) of the CoinPayments tools
verifyIpnSignature(postData, receivedHmac) ==
    LET secret == processEnv("COINPAYMENTS_IPN_SECRET")
        computedHmac == hexDigest("sha512", secret, postData)
    IN  SecretTest(secret, "verifyIpnSignature", postData, receivedHmac,
            Returned("verifyIpnSignature", postData, receivedHmac,
                     computedHmac = receivedHmac))

\* verifyWebhookSignature(body, signature) of the NowPayments tools.
\* Object.keys(null) throws a TypeError.
verifyWebhookSignatureNowPayments(body, signature) ==
    LET secret == processEnv("NOWPAYMENTS_IPN_SECRET")
        sortedJson == JSONstringify(sortedParams(body))
        computedSignature == hexDigest("sha512", secret, sortedJson)
    IN  SecretTest(secret, "NowPayments verifyWebhookSignature", body, signature,
            IF body.kind = "null"
            THEN Threw("NowPayments verifyWebhookSignature", body, signature)
            ELSE Returned("NowPayments verifyWebhookSignature", body, signature,
                          computedSignature = signature))

\* verifyWebhookSignature(rawBody, signature) of the Coinbase Commerce tools
verifyWebhookSignatureCoinbase(rawBody, signature) ==
    LET secret == processEnv("COINBASE_COMMERCE_WEBHOOK_SECRET")
        computedSignature == hexDigest("sha256", secret, rawBody)
    IN  SecretTest(secret, "Coinbase Commerce verifyWebhookSignature", rawBody,
                   signature,
            Returned("Coinbase Commerce verifyWebhookSignature", rawBody, signature,
                     computedSignature = signature))

\* The bodies that arrive, as the members they write.
Charge == << <<"data", "x">>, <<"type", "x">> >>
ChargeReordered == << <<"type", "x">>, <<"data", "x">> >>
NoData == << <<"type", "x">> >>
IndexedByCodeUnit == << <<"10", "x">>, <<"9", "x">> >>
IndexedByNumber == << <<"9", "x">>, <<"10", "x">> >>
Payment ==
    << <<"transaction_hash", "x">>, <<"contract_address", "x">>,
       <<"amount", "x">>, <<"currency", "x">> >>

Members ==
    {Charge, ChargeReordered, NoData, IndexedByCodeUnit, IndexedByNumber,
     Payment}

ReceivedTexts ==
    [format : {"json"}, pairs : Members, spaced : {FALSE}]
        \cup [format : {"json"}, pairs : {Charge, Payment}, spaced : {TRUE}]
        \cup [format : {"form"}, pairs : {Charge}, spaced : {FALSE}]

PairBefore(p, q) == KeyBefore(p[1], q[1])

\* The text with its members in the code unit order of their names.
SortedText(text) == [text EXCEPT !.pairs = SortSeq(text.pairs, PairBefore)]

\* The strings a sender may have signed for a body it sends as `text`.
SignableTexts(text) ==
    {text, SortedText(text), JSONstringify(JSONparse(text)),
     JSONstringify(sortedParams(JSONparse(text))), postDataOf(JSONparse(text))}

\* The signatures a request or a call may carry with `text`: none, one that
\* is no digest of the body, a digest under another key, and the digests
\* under the secret, written in lower case or (cases) in upper case.
Signatures(text, alg, prefixes, cases) ==
    {NoSignature, OtherSignature, hexDigest(alg, ForeignKey, text)}
        \cup {WithPrefix(prefix, IF upper
                                 THEN toUpperCase(hexDigest(alg, ConfiguredKey, t))
                                 ELSE hexDigest(alg, ConfiguredKey, t)) :
                prefix \in prefixes, upper \in cases, t \in SignableTexts(text)}

PostCoinbaseCommerce ==
    /\ \E text \in ReceivedTexts : \E signature \in Signatures(text, "sha256", {""}, {FALSE}) :
          hook' = CoinbaseCommerceWebhook(text, signature)
    /\ verdict' = NoVerdict
    /\ UNCHANGED outsideHooks

PostCoinPayments ==
    /\ \E text \in ReceivedTexts : \E signature \in Signatures(text, "sha512", {""}, {FALSE}) :
          hook' = CoinPaymentsWebhook(text, signature)
    /\ verdict' = NoVerdict
    /\ UNCHANGED outsideHooks

PostNowPayments ==
    /\ \E text \in ReceivedTexts : \E signature \in Signatures(text, "sha512", {""}, {FALSE}) :
          hook' = NowPaymentsWebhook(text, signature)
    /\ verdict' = NoVerdict
    /\ UNCHANGED outsideHooks

PostDirectCrypto ==
    /\ \E text \in ReceivedTexts :
          \E signature \in Signatures(text, "sha256", {"", "sha256="}, {FALSE}) :
             hook' = DirectCryptoWebhook(text, signature)
    /\ verdict' = NoVerdict
    /\ UNCHANGED outsideHooks

CallVerifyIpnSignature ==
    /\ \E text \in ReceivedTexts : \E signature \in Signatures(text, "sha512", {""}, BOOLEAN) :
          verdict' = verifyIpnSignature(text, signature)
    /\ hook' = NoHook
    /\ UNCHANGED outsideHooks

\* The verify tool passes JSON.parse(webhook_body).
CallVerifyNowPayments ==
    /\ \E text \in {t \in ReceivedTexts \cup {NullText} : t.format /= "form"} :
          \E signature \in Signatures(text, "sha512", {""}, BOOLEAN) :
             verdict' = verifyWebhookSignatureNowPayments(JSONparse(text), signature)
    /\ hook' = NoHook
    /\ UNCHANGED outsideHooks

CallVerifyCoinbase ==
    /\ \E text \in ReceivedTexts : \E signature \in Signatures(text, "sha256", {""}, BOOLEAN) :
          verdict' = verifyWebhookSignatureCoinbase(text, signature)
    /\ hook' = NoHook
    /\ UNCHANGED outsideHooks

\* What a verify tool returned: an error result, or a report that holds
\* signature_valid.
ToolErrorResult(tool, payload, signature) ==
    [fn |-> tool, payload |-> payload, signature |-> signature,
     result |-> FALSE, threw |-> FALSE, isError |-> TRUE]

ToolReport(tool, payload, signature, isValid) ==
    [fn |-> tool, payload |-> payload, signature |-> signature,
     result |-> isValid, threw |-> FALSE, isError |-> FALSE]

\* decodeURIComponent throws a URIError on a truncated escape.
IsMalformedEscape(str) == str = "%"

\* for (const pair of ipn_data.split('&')) {
\*   parsedData[decodeURIComponent(key)] = decodeURIComponent(value || '') }
DisplayParseThrows(ipn_data) ==
    /\ ipn_data.format = "form"
    /\ \E i \in 1..Len(ipn_data.pairs) :
          IsMalformedEscape(ipn_data.pairs[i][1]) \/ IsMalformedEscape(ipn_data.pairs[i][2])

\* The handler of coinpayments-verify-ipn: the display parsing follows the
\* verification inside the one try block.
coinpaymentsVerifyIpn(ipn_data, hmac_signature) ==
    IF ~Truthy(processEnv("COINPAYMENTS_IPN_SECRET"))
    THEN ToolErrorResult("coinpayments-verify-ipn", ipn_data, hmac_signature)
    ELSE LET isValid == verifyIpnSignature(ipn_data, hmac_signature).result
         IN  IF DisplayParseThrows(ipn_data)
             THEN ToolErrorResult("coinpayments-verify-ipn", ipn_data, hmac_signature)
             ELSE ToolReport("coinpayments-verify-ipn", ipn_data, hmac_signature, isValid)

\* The handler of coinbase-commerce-verify-webhook: JSON.parse(raw_body) for
\* display has a try block of its own.
coinbaseCommerceVerifyWebhook(raw_body, signature) ==
    IF ~Truthy(processEnv("COINBASE_COMMERCE_WEBHOOK_SECRET"))
    THEN ToolErrorResult("coinbase-commerce-verify-webhook", raw_body, signature)
    ELSE LET isValid == verifyWebhookSignatureCoinbase(raw_body, signature).result
         IN  ToolReport("coinbase-commerce-verify-webhook", raw_body, signature, isValid)

\* Raw payloads given to the verify tools: a JSON text, a form text, and a
\* form text with a truncated escape.
TruncatedEscape == << <<"%", "x">> >>

ToolPayloads ==
    [format : {"json", "form"}, pairs : {Charge}, spaced : {FALSE}]
        \cup [format : {"form"}, pairs : {TruncatedEscape}, spaced : {FALSE}]

CallCoinpaymentsVerifyIpn ==
    /\ \E text \in ToolPayloads : \E signature \in Signatures(text, "sha512", {""}, {FALSE}) :
          verdict' = coinpaymentsVerifyIpn(text, signature)
    /\ hook' = NoHook
    /\ UNCHANGED outsideHooks

CallCoinbaseCommerceVerifyWebhook ==
    /\ \E text \in ToolPayloads : \E signature \in Signatures(text, "sha256", {""}, {FALSE}) :
          verdict' = coinbaseCommerceVerifyWebhook(text, signature)
    /\ hook' = NoHook
    /\ UNCHANGED outsideHooks

InitWebhooks ==
    /\ transports = [u \in UUIDs |-> Undefined]
    /\ transport = [t \in Transports |-> NewTransport]
    /\ nTransports = 0
    /\ pending = {}
    /\ last = NoRequest
    /\ issued = {}
    /\ terminated = {}
    /\ env \in SUBSET SecretNames
    /\ calls = NoCalls
    /\ job = NoJob
    /\ hook = NoHook
    /\ verdict = NoVerdict
    /\ proxy = NoProxy

NextWebhooks ==
    \/ PostCoinbaseCommerce
    \/ PostCoinPayments
    \/ PostNowPayments
    \/ PostDirectCrypto

SpecWebhooks == InitWebhooks /\ [][NextWebhooks]_vars

\* The calls of the verification functions, in every configuration of the
\* secrets.
NextVerify ==
    \/ CallVerifyIpnSignature
    \/ CallVerifyNowPayments
    \/ CallVerifyCoinbase
    \/ CallCoinpaymentsVerifyIpn
    \/ CallCoinbaseCommerceVerifyWebhook

SpecVerify == InitWebhooks /\ [][NextVerify]_vars

\* ========================================================= the stdio proxy
\* proxy.js: one process that serves MCP requests on stdio and forwards them
\* to the HTTP server with a client kept in two variables of main(), `client`
\* and `httpTransport`, which every request handler shares.  The two are
\* assigned and reset together, so the model keeps them as one: proxy.client
\* is the number of the Client held, 0 for null.

\* The number of Client objects the proxy may create.
MaxClients == 3

\* The number of requests the proxy may have in hand at once.
MaxRequests == 2

Clients == 1..MaxClients

ReqSlots == 1..MaxRequests

\* The requests whose handler retries: tools/call, resources/read, prompts/get.
ProxyMethods == {"tools/call", "resources/read", "prompts/get"}

\* A request slot with no request in it.
\*   attempts     remote calls made for the request
\*   on           the Client the outstanding remote call was made on
\*   established  whether that Client had completed its connect at the call
\*   waits        the Client whose connect() the handler awaits, if any
\*   floor        the Clients that existed when the failure was caught
IdleRequest ==
    [pc |-> "idle", method |-> "none", attempts |-> 0, on |-> 0,
     established |-> TRUE, waits |-> 0, floor |-> 0, result |-> "none"]

\* The handler of request r has returned (outcome "result") or thrown
\* (outcome "error"); attempts keeps what it did.
Settled(p, r, outcome) ==
    [p EXCEPT !.req[r] = [IdleRequest EXCEPT !.pc = "done",
                                             !.attempts = p.req[r].attempts,
                                             !.result = outcome]]

\* The Client objects created so far.
Created(p) == {k \in Clients : p.conn[k] /= "none"}

CanCreate(p) == Created(p) /= Clients

\* new Client(...): the next object.
NewClient(p) == Cardinality(Created(p)) + 1

\* ensureConnected(), up to its await, called by the handler of request r for
\* the first or the second time (stage).  The variables are assigned before
\* connect() is awaited; when they are already set the function returns
\* without awaiting anything.
ensureConnected(p, r, stage) ==
    IF p.client = 0
    THEN LET k == NewClient(p) IN
         [p EXCEPT !.client = k,
                   !.conn[k] = "connecting",
                   !.req[r].pc = IF stage = 1 THEN "connect1" ELSE "connect2",
                   !.req[r].waits = k]
    ELSE [p EXCEPT !.req[r].pc = IF stage = 1 THEN "ensured1" ELSE "ensured2"]

\* The catch block left without its reset of the variables: the retry goes
\* to the Client that failed.
catchBlockKeepsClient(p, r) ==
    ensureConnected([p EXCEPT !.req[r].floor = Cardinality(Created(p)),
                              !.req[r].on = 0,
                              !.req[r].established = TRUE], r, 2)

\* The catch block of a handler: client = null; httpTransport = null; then
\* ensureConnected() again, all before the next await.
catchBlock(p, r) ==
    ensureConnected([p EXCEPT !.client = 0,
                              !.req[r].floor = Cardinality(Created(p)),
                              !.req[r].on = 0,
                              !.req[r].established = TRUE], r, 2)

\* A request arrives on stdio and its handler runs to its first await.
ProxyRequest(r, method) ==
    /\ proxy.req[r].pc \in {"idle", "done"}
    /\ proxy.client = 0 => CanCreate(proxy)
    /\ proxy' = ensureConnected(
                    [proxy EXCEPT !.req[r] =
                        [IdleRequest EXCEPT !.method = method]], r, 1)
    /\ UNCHANGED outsideProxy

\* connect() of a Client settles: it resolves or it rejects.
ConnectSettles(k, ok) ==
    /\ proxy.conn[k] = "connecting"
    /\ proxy' = [proxy EXCEPT !.conn[k] = IF ok THEN "connected" ELSE "failed"]
    /\ UNCHANGED outsideProxy

\* The handler that awaited connect() goes on.  A rejection inside the try
\* block is caught like a failed call; a rejection inside the catch block
\* leaves the handler.
AfterConnect(r) ==
    LET q == proxy.req[r] IN
    /\ q.pc \in {"connect1", "connect2"}
    /\ proxy.conn[q.waits] \in {"connected", "failed"}
    /\ (q.pc = "connect1" /\ proxy.conn[q.waits] = "failed") => CanCreate(proxy)
    /\ proxy' =
         IF proxy.conn[q.waits] = "connected"
         THEN [proxy EXCEPT !.req[r].pc =
                   IF q.pc = "connect1" THEN "ensured1" ELSE "ensured2",
                            !.req[r].waits = 0]
         ELSE IF q.pc = "connect1"
              THEN catchBlock(proxy, r)
              ELSE Settled(proxy, r, "error")
    /\ UNCHANGED outsideProxy

\* client.callTool(request.params) (readResource, getPrompt): the call goes
\* to whatever `client` holds when the handler resumes.
RemoteCall(r) ==
    LET q == proxy.req[r]
        c == proxy.client
    IN /\ q.pc \in {"ensured1", "ensured2"}
       /\ c /= 0
       /\ proxy' = [proxy EXCEPT
              !.req[r].pc = IF q.pc = "ensured1" THEN "call1" ELSE "call2",
              !.req[r].attempts = q.attempts + 1,
              !.req[r].on = c,
              !.req[r].established = (proxy.conn[c] = "connected")]
       /\ UNCHANGED outsideProxy

\* The remote call settles.  A call on a Client that is not connected can
\* only reject.  The first rejection enters the catch block, the second one
\* leaves the handler.
CallSettles(r, ok) ==
    LET q == proxy.req[r] IN
    /\ q.pc \in {"call1", "call2"}
    /\ ok => q.established
    /\ (q.pc = "call1" /\ ~ok) => CanCreate(proxy)
    /\ proxy' =
         IF ok
         THEN Settled(proxy, r, "result")
         ELSE IF q.pc = "call1"
              THEN catchBlock(proxy, r)
              ELSE Settled(proxy, r, "error")
    /\ UNCHANGED outsideProxy

\* main() has run: its own ensureConnected() resolved (the process exits
\* otherwise) and the server is connected to stdio.
InitProxy ==
    /\ transports = [u \in UUIDs |-> Undefined]
    /\ transport = [t \in Transports |-> NewTransport]
    /\ nTransports = 0
    /\ pending = {}
    /\ last = NoRequest
    /\ issued = {}
    /\ terminated = {}
    /\ env = NoEnv
    /\ calls = NoCalls
    /\ job = NoJob
    /\ hook = NoHook
    /\ verdict = NoVerdict
    /\ proxy = [client |-> 1,
                conn |-> [k \in Clients |->
                             IF k = 1 THEN "connected" ELSE "none"],
                req |-> [r \in ReqSlots |-> IdleRequest]]

NextProxy ==
    \/ \E r \in ReqSlots, method \in ProxyMethods : ProxyRequest(r, method)
    \/ \E k \in Clients, ok \in BOOLEAN : ConnectSettles(k, ok)
    \/ \E r \in ReqSlots : AfterConnect(r)
    \/ \E r \in ReqSlots : RemoteCall(r)
    \/ \E r \in ReqSlots, ok \in BOOLEAN : CallSettles(r, ok)

SpecProxy == InitProxy /\ [][NextProxy]_vars

\* ------------------------------------------------------------ the claims
\* What the requests of `last` say about the session id they carried.
NoSessionId == {"absent", "empty"}

\* The transport call of the request failed: handleRequest threw, or its
\* promise rejected.
TransportFailed(r) == r.sdk \in {"faulted", "rejected", "rejected after headers"}

\* The ids under which the table holds transport t.
KeysOf(tbl, t) == {u \in UUIDs : tbl[u] = t}

\* C1: a request (POST, GET or DELETE) whose session id was removed from the
\* table before is answered with 400 by the handler itself: no transport is
\* called for it, no transport is constructed for it, it is not suspended,
\* and nothing escapes the handler.
C1_ClosedSessionFinality ==
    last.sidWas = "terminated" =>
        /\ last.pc = "done"
        /\ last.status = 400
        /\ last.sdk = "none"
        /\ last.transport = Undefined
        /\ ~last.uncaught

\* C1 happens: an initialize POST carrying a terminated id was answered 400.
C1_Witness ==
    /\ last.sidWas = "terminated"
    /\ last.method = "POST"
    /\ last.body = "initialize"
    /\ last.status = 400

\* C2: a request whose session-id header is a string that was never
\* registered is answered with 400 by the handler, never with a 5xx status
\* and never by an error that escapes the handler.
C2_UnknownSessionRejected ==
    last.sidWas = "never" =>
        /\ last.pc = "done"
        /\ last.status = 400
        /\ ~last.uncaught

\* A POST that carries no session id and no initialize body is answered 400
\* with the structured error, and no transport is constructed for it.
C3_NonInitializeRefused ==
    (last.method = "POST" /\ last.sidWas \in NoSessionId /\ last.body /= "initialize") =>
        /\ last.pc = "done"
        /\ last.status = 400
        /\ last.errCode = -32000
        /\ last.transport = Undefined

\* A step that constructs a transport, or puts one in the table, is a step
\* of an initialize POST that carried no session id.
C3_CreatedByInitializeOnly ==
    (\/ nTransports' /= nTransports
     \/ \E u \in UUIDs : transports'[u] /= Undefined /\ transports'[u] /= transports[u])
    => /\ last'.method = "POST"
       /\ last'.body = "initialize"
       /\ last'.sidWas \in NoSessionId

\* C3: a transport is constructed, and an id registered, only by a POST that
\* carries no session id (header absent or empty) and an initialize body; a
\* POST that carries no session id and another body is answered 400 with
\* the structured error (code -32000), and constructs nothing.
C3_SessionCreation == [][C3_CreatedByInitializeOnly /\ C3_NonInitializeRefused']_vars

\* C3 happens: a session is registered and a POST without session id and
\* without an initialize body was answered 400 with code -32000.
C3_Witness ==
    /\ last.method = "POST"
    /\ last.sidWas = "absent"
    /\ last.body = "other"
    /\ last.status = 400
    /\ last.errCode = -32000
    /\ \E u \in UUIDs : transports[u] /= Undefined

\* The session ids of the transports are pairwise distinct.
C4_Distinct ==
    \A t1, t2 \in Transports :
        (t1 /= t2 /\ transport[t1].sessionId /= Undefined
                  /\ transport[t2].sessionId /= Undefined)
        => transport[t1].sessionId /= transport[t2].sessionId

\* A step that gives a transport its id gives it one not given before.
C4_NeverReissued ==
    \A t \in Transports :
        (transport[t].sessionId = Undefined /\ transport'[t].sessionId /= Undefined)
        => transport'[t].sessionId \notin (issued \cup terminated)

C5_NoClosedInTable ==
    /\ \A t \in Transports : transport[t].closed => KeysOf(transports, t) = {}
    /\ (last.method = "DELETE" /\ last.pc = "done" /\ last.transport \in Transports
            /\ ~TransportFailed(last))
       => KeysOf(transports, last.transport) = {}

\* C5 happens: a transport closed while its DELETE handler is still
\* suspended, before the handler's own cleanup.
C5_Witness ==
    \E p \in pending :
        /\ p.pc = "delete"
        /\ transport[p.transport].closed

\* C6: once a DELETE of a registered session has ended, the table holds no
\* entry for that session's transport, whether or not the transport's
\* handling of the DELETE raised an error.
C6_DeleteAlwaysDeregisters ==
    (last.method = "DELETE" /\ last.pc = "done" /\ last.transport \in Transports)
    => KeysOf(transports, last.transport) = {}

\* Removing an id twice gives what removing it once gives, and a removal
\* leaves every other id as it was.
C7_RemoveTwice ==
    \A u \in UUIDs :
        /\ DeleteKey(DeleteKey(transports, u), u) = DeleteKey(transports, u)
        /\ \A v \in UUIDs \ {u} : DeleteKey(transports, u)[v] = transports[v]

\* The cleanup of a DELETE whose entry onclose removed before changes
\* nothing.
C7_SecondRemovalChangesNothing ==
    \A p \in pending :
        (p.pc = "delete" /\ p \notin pending'
            /\ KeysOf(transports, p.transport) = {})
        => transports' = transports

\* A step removes no entry but that of the transport its request went to.
C7_RemovesOwnEntryOnly ==
    \A u \in UUIDs :
        (transports[u] /= Undefined /\ transports'[u] = Undefined)
        => transports[u] = last'.transport

\* C7: removing an id that is not in the table changes nothing (removing an
\* id twice gives what removing it once gives), and a step removes no entry
\* but that of the transport its request was routed to.
C7_IdempotentRemoval ==
    [][C7_SecondRemovalChangesNothing /\ C7_RemovesOwnEntryOnly /\ C7_RemoveTwice']_vars

\* C7 happens: a DELETE ended with status 200 after its cleanup removed the
\* id that onclose had removed before, while another session is registered.
C7_Witness ==
    /\ last.method = "DELETE"
    /\ last.pc = "done"
    /\ last.sdk = "resolved"
    /\ last.status = 200
    /\ KeysOf(transports, last.transport) = {}
    /\ \E u \in UUIDs : transports[u] \in Transports

\* A step that answers a POST of a registered session whose transport call
\* failed.
C8_FailedPost ==
    (last'.method = "POST" /\ last'.sidWas = "live" /\ last'.pc = "done"
        /\ last'.transport \in Transports /\ TransportFailed(last'))
    => /\ transports' = transports
       /\ KeysOf(transports', last'.transport) /= {}
       /\ ~last'.uncaught
       /\ (last'.sdk \in {"faulted", "rejected"}
            => (last'.status = 500 /\ last'.errCode = -32603))

\* C8: a step that answers a POST of a registered session whose transport
\* call failed leaves the table as it was, the session still registered
\* under its id; unless the response had been started, the answer is 500
\* with code -32603.
C8_PostFailureKeepsSession == [][C8_FailedPost]_vars

\* C8 happens: a POST of a registered session failed and was answered 500.
C8_Witness ==
    /\ last.method = "POST"
    /\ last.sidWas = "live"
    /\ last.body = "other"
    /\ last.sdk = "rejected"
    /\ last.status = 500
    /\ KeysOf(transports, last.transport) /= {}

\* C9: once an initialize POST without session id was answered with an
\* error status (4xx or 5xx), the table holds no entry for the transport
\* that was constructed for it.
C9_FailedInitializeLeavesNothing ==
    (last.method = "POST" /\ last.body = "initialize" /\ last.sidWas \in NoSessionId
        /\ last.pc = "done" /\ last.status >= 400)
    => (last.transport \in Transports => KeysOf(transports, last.transport) = {})

\* No step replaces the transport an id is registered for by another.
C10_NoReplacement ==
    \A u \in UUIDs :
        transports[u] /= Undefined => transports'[u] \in {transports[u], Undefined}

\* C10: registering a transport under an id the table already holds is
\* rejected: an entry of the table is never replaced by another transport.
C10_DuplicateRegistrationRejected == [][C10_NoReplacement]_vars

\* A tool call that ended after a failure inside its handler: its
\* credential is missing, or the last remote call it awaited failed.
ToolFailed(call) ==
    /\ call.pc = "done"
    /\ \/ (Credential(call.tool) /= Undefined /\ Credential(call.tool) \notin env)
       \/ (call.seen /= <<>> /\ call.seen[Len(call.seen)] /= "resolved")

\* The session the tools are called on is registered as it was.
SessionStaysOpen ==
    /\ transports[UUIDPool[1]] = TransportPool[1]
    /\ \A u \in UUIDs \ {UUIDPool[1]} : transports[u] = Undefined
    /\ ~transport[TransportPool[1]].closed

\* C11: a tool call that ended after a failure inside its handler (remote
\* call rejected, error response, missing credential, unparsable output)
\* did not reject: its result has isError = true and a text block; and the
\* session table is as it was, the calling session still registered.
C11_ToolFailureIsErrorResult ==
    /\ \A c \in CallSlots :
           ToolFailed(calls[c]) =>
               /\ calls[c].result.isError
               /\ calls[c].result.content = "text"
               /\ ~calls[c].result.rejects
    /\ SessionStaysOpen

\* C11 happens: one call ended on a missing credential and another on an
\* unparsable remote output.
C11_Witness ==
    \E c, d \in CallSlots :
        /\ ToolFailed(calls[c]) /\ calls[c].result.cause = "missing credential"
        /\ ToolFailed(calls[d]) /\ calls[d].result.cause = "unparsable output"

\* The first remote outcome of a handler's run that is a failure (0: none).
FirstFailure(seen) ==
    IF \E i \in 1..Len(seen) : seen[i] /= "resolved"
    THEN CHOOSE i \in 1..Len(seen) :
             seen[i] /= "resolved" /\ \A j \in 1..(i - 1) : seen[j] = "resolved"
    ELSE 0

\* What the handler of `tool` returns when it runs alone, with credentials
\* e and remote outcomes `seen`.
RunAlone(tool, e, seen) ==
    IF Credential(tool) /= Undefined /\ Credential(tool) \notin e
    THEN [isError |-> TRUE, content |-> "text", cause |-> "missing credential",
          rejects |-> FALSE]
    ELSE IF FirstFailure(seen) /= 0
    THEN [isError |-> TRUE, content |-> "text", cause |-> seen[FirstFailure(seen)],
          rejects |-> FALSE]
    ELSE [isError |-> FALSE, content |-> "text", cause |-> "none", rejects |-> FALSE]

\* The result of every call that ended is what its handler returns alone.
C12_ResultAsAlone ==
    \A c \in CallSlots :
        calls[c].pc = "done" => calls[c].result = RunAlone(calls[c].tool, env, calls[c].seen)

\* A step writes one call's own record and nothing the calls share.
C12_StepIsLocal ==
    /\ env' = env
    /\ \A c, d \in CallSlots : (c /= d /\ calls'[c] /= calls[c]) => calls'[d] = calls[d]

C13_ToolCallReturns ==
    \A c \in CallSlots : (calls[c].pc = "await") ~> (calls[c].pc = "done")

\* waitForJob has ended: it returned a status or threw.
WaitForJobEnded == job.pc \in {"returned", "thrown"}

\* What holds of a call of waitForJob that ended: a status it returned is
\* terminal and is the one just polled; 'Job timed out' is thrown only once
\* the elapsed time has reached maxWaitTime.
C14_EndsRight ==
    /\ job.pc = "returned" => (IsTerminalStatus(job.out) /\ job.out = job.polled)
    /\ (job.pc = "thrown" /\ job.out = "Job timed out")
           => job.now - job.startTime >= job.maxWaitTime
    /\ job.pc \in {"sleeping", "test", "polling"} => ~job.sawTerminal

\* C14: a call of waitForJob always ends: it returns the first polled
\* status that is 'completed' or 'failed', never a 'pending' or
\* 'processing' one, or it throws once the elapsed time has reached
\* maxWaitTime.
C14_WaitForJobTerminates ==
    /\ []C14_EndsRight
    /\ (job.pc \notin {"idle", "returned", "thrown"}) ~> WaitForJobEnded

\* A webhook endpoint has handled a request.
HookHandled == hook.endpoint /= "none"

\* C15: a webhook request is acknowledged with 200 as an authenticated event
\* only if its signature was recomputed and found equal to the received
\* one; an unconfigured secret or an absent signature header does not let
\* the request through.
C15_FailClosedWebhooks ==
    (HookHandled /\ hook.status = 200) => hook.equal

\* A verification function has been called, and the secret it reads.
VerifyCalled == verdict.fn /= "none"

SecretOf(fn) ==
    IF fn \in {"verifyIpnSignature", "coinpayments-verify-ipn"}
    THEN "COINPAYMENTS_IPN_SECRET"
    ELSE IF fn = "NowPayments verifyWebhookSignature" THEN "NOWPAYMENTS_IPN_SECRET"
    ELSE "COINBASE_COMMERCE_WEBHOOK_SECRET"

\* C16: when a provider's secret is absent, its verify function returns
\* false and does not throw, for every payload and every signature.
C16_UnconfiguredSecretReturnsFalse ==
    (VerifyCalled /\ SecretOf(verdict.fn) \notin env)
        => (~verdict.result /\ ~verdict.threw)

\* The NowPayments function was called without its secret on the payload
\* null, which it cannot take the keys of, and returned.
C16_Witness ==
    /\ verdict.fn = "NowPayments verifyWebhookSignature"
    /\ "NOWPAYMENTS_IPN_SECRET" \notin env
    /\ verdict.payload = Null
    /\ ~verdict.result
    /\ ~verdict.threw

\* C17: at the Coinbase Commerce and the CoinPayments endpoint, the string
\* over which the HMAC is recomputed is the request body exactly as it was
\* received, not a re-serialization of the parsed body.
C17_SignsBodyAsReceived ==
    (/\ HookHandled
     /\ hook.endpoint \in {"coinbase-commerce", "coinpayments"}
     /\ hook.signed /= NoText)
        => hook.signed = hook.raw

\* verifyIpnSignature was called with the secret configured; B is
\* verdict.payload, s is verdict.signature, K is the configured secret.
IpnVerified ==
    /\ verdict.fn = "verifyIpnSignature"
    /\ "COINPAYMENTS_IPN_SECRET" \in env

IpnDigest == hexDigest("sha512", ConfiguredKey, verdict.payload)

\* Changing B, or changing s, makes the function return false.
IpnChangeRejected ==
    /\ \A B \in ReceivedTexts \ {verdict.payload} :
          ~verifyIpnSignature(B, verdict.signature).result
    /\ \A s \in Signatures(verdict.payload, "sha512", {""}, BOOLEAN) \ {verdict.signature} :
          ~verifyIpnSignature(verdict.payload, s).result

\* C18 (as stated): verify returns true if and only if s equals the hex
\* HMAC-SHA512(K, B) compared case-insensitively, and changing any single
\* character of B or of s makes it return false.
C18_CaseInsensitiveDigest ==
    IpnVerified =>
        /\ verdict.result <=> (toLowerCase(verdict.signature) = IpnDigest)
        /\ verdict.result => IpnChangeRejected

\* C18: verify returns true if and only if s is exactly the lower-case hex
\* HMAC-SHA512(K, B), the case of the hex digits included, and changing any
\* single character of B or of s makes it return false.
C18_ExactDigest ==
    IpnVerified =>
        /\ ~verdict.threw
        /\ verdict.result <=> (verdict.signature = IpnDigest)
        /\ verdict.result => IpnChangeRejected

\* The function returned true for the digest of the body under the secret.
C18_Witness ==
    /\ IpnVerified
    /\ verdict.result
    /\ verdict.signature = IpnDigest

\* The NowPayments function was called on an object with the secret
\* configured.
NowPaymentsVerified ==
    /\ verdict.fn = "NowPayments verifyWebhookSignature"
    /\ "NOWPAYMENTS_IPN_SECRET" \in env
    /\ verdict.payload.kind = "object"

\* The JSON text of an object with its top-level keys in sorted order.
SortedJson(body) == SortedText(JSONstringify(body))

\* C19: whatever the order and the form of the top-level keys of the body,
\* the string that is signed serializes them in lexicographically sorted
\* order: the function accepts the digest of that string and no other, so
\* not the digest of a serialization that is not sorted.
C19_SortedKeysAreSigned ==
    NowPaymentsVerified =>
        (verdict.result <=>
            verdict.signature = hexDigest("sha512", ConfiguredKey, SortedJson(verdict.payload)))

\* The endpoint recomputed the signature and found it different.
SignatureFailed == hook.signed /= NoText /\ ~hook.equal

\* C20: at every webhook endpoint a signature failure is the only condition
\* that yields a non-success status; a request whose processing fails in
\* another way is still acknowledged with 200.
C20_OnlySignatureFailureRejects ==
    HookHandled => (hook.status /= 200 <=> SignatureFailed)

\* The secret an endpoint reads.
SecretOfEndpoint(endpoint) ==
    IF endpoint = "coinbase-commerce" THEN "COINBASE_COMMERCE_WEBHOOK_SECRET"
    ELSE IF endpoint = "coinpayments" THEN "COINPAYMENTS_IPN_SECRET"
    ELSE IF endpoint = "nowpayments" THEN "NOWPAYMENTS_IPN_SECRET"
    ELSE "DIRECT_CRYPTO_WEBHOOK_SECRET"

\* A provider endpoint handled a request with its secret configured.
ProviderHandled ==
    /\ hook.endpoint \in {"coinbase-commerce", "coinpayments", "nowpayments"}
    /\ SecretOfEndpoint(hook.endpoint) \in env

\* The request carried a signature and it is not the one the endpoint
\* computes.
WrongSignature == SignatureTruthy(hook.signature) /\ ~hook.equal

\* The body holds what the endpoint's processing takes apart.
EventPresent ==
    hook.endpoint = "coinbase-commerce" => HasOwn(hook.body, "data")

\* C21: with the secret configured, a request with a wrong signature is
\* answered 401, whatever its body; a request with the correct signature
\* and an event in its body is answered 200 with a JSON acknowledgment that
\* includes the identifiers of the event.
C21_AcknowledgmentScenario ==
    ProviderHandled =>
        /\ WrongSignature => hook.status = 401
        /\ (hook.equal /\ EventPresent) =>
              /\ hook.status = 200
              /\ hook.ack.format = "json"
              /\ hook.ack.ids /= {}

\* The fields of an event that the endpoint's processing is about: the
\* charge of a Coinbase Commerce event, the payment id of a NowPayments
\* event, the validated fields of a direct-crypto event.
RequiredOf(endpoint) ==
    IF endpoint = "coinbase-commerce" THEN {"data"}
    ELSE IF endpoint = "nowpayments" THEN {"payment_id"}
    ELSE IF endpoint = "direct-crypto" THEN RequiredFields
    ELSE {}

LacksRequired == \E f \in RequiredOf(hook.endpoint) : ~HasOwn(hook.body, f)

\* C22: a request that passes the signature check but lacks a structurally
\* required field of the event is answered 400, and not 500.
C22_MissingFieldIs400 ==
    (HookHandled /\ hook.status /= 401 /\ LacksRequired) => hook.status = 400

\* A verify tool that operates on a raw payload was called with its secret
\* configured.
RawVerifyToolCalled ==
    /\ verdict.fn \in {"coinpayments-verify-ipn", "coinbase-commerce-verify-webhook"}
    /\ SecretOf(verdict.fn) \in env

\* The verdict over the raw string: the signature is the digest of the
\* payload as given.
RawVerdict ==
    verdict.signature =
        hexDigest(IF verdict.fn = "coinpayments-verify-ipn" THEN "sha512" ELSE "sha256",
                  ConfiguredKey, verdict.payload)

\* C23: with the secret configured, the verify tools on a raw payload report
\* the signature verdict computed over the raw string, whether or not the
\* payload can be parsed for display.
C23_DisplayParsingNeverBlocks ==
    RawVerifyToolCalled =>
        /\ ~verdict.isError
        /\ verdict.result <=> RawVerdict

\* The sessions that have been initialized and are neither terminated nor
\* closed: the ids that the transports generated, less those removed by a
\* DELETE or by the closing of their transport.
OpenSessions ==
    {u \in issued \ terminated :
        \E t \in Transports : transport[t].sessionId = u /\ ~transport[t].closed}

\* C24: the session count that GET /health reports is the number of
\* sessions initialized and not yet terminated or closed, and handling
\* GET /health or GET / leaves the session table as it was.
C24_HealthStep ==
    last'.method \in {"GET /health", "GET /"} =>
        /\ transports' = transports
        /\ transport' = transport
        /\ last'.method = "GET /health" => last'.sessions = Cardinality(OpenSessions')

C25_AdvertisedIsRegistered ==
    calls[1].pc = "done" =>
        /\ calls[1].tool \in TOOL_NAMES \cup AvailableTools
              => calls[1].result /= UnknownTool
        /\ calls[1].result /= UnknownTool => calls[1].tool \in TOOL_NAMES

\* A step that hands a request with the session id sid to a transport.
Dispatches(sid) ==
    \/ \E body \in Bodies, outcome \in CallOutcomes, refusal \in TransportRefusals :
          PostReuse(sid, body, outcome, refusal)
    \/ \E outcome \in CallOutcomes, refusal \in TransportRefusals :
          GetRouted(sid, outcome, refusal)
    \/ \E outcome \in CallOutcomes, refusal \in TransportRefusals :
          DeleteRouted(sid, outcome, refusal)

\* The transport a request is handed to is the one registered under the
\* request's session id when it is handed over.
C26_DispatchedToRegistered ==
    \A sid \in HeaderValues :
        Dispatches(sid) =>
            /\ sid \in UUIDs
            /\ transports[sid] = last'.transport
            /\ transport[last'.transport].sessionId = sid

\* The cleanup after the await of a DELETE handler removes no entry of
\* another transport.
C26_CleanupRemovesOwnEntry ==
    \A p \in pending :
        (p.pc = "delete" /\ p \notin pending') =>
            \A u \in UUIDs :
                (transports[u] /= Undefined /\ transports'[u] = Undefined)
                    => transports[u] = p.transport

\* C26: under every interleaving of the /mcp handlers, a request is handed
\* to a transport only if that transport is registered under the request's
\* session id at that moment, and the cleanup after the await of the DELETE
\* handler never removes an entry of another transport.
C26_DispatchAndCleanup ==
    [][C26_DispatchedToRegistered /\ C26_CleanupRemovesOwnEntry]_vars

\* A DELETE handler finished its cleanup while another handler, which began
\* during its await, was still suspended.
C26_Witness ==
    /\ last.method = "DELETE"
    /\ last.pc = "done"
    /\ last.sdk = "resolved"
    /\ pending /= {}

\* The last request is an initialize request that was answered with
\* success: its response carries the session id the transport generated.
InitializeAnswered ==
    /\ last.method = "POST"
    /\ last.body = "initialize"
    /\ last.sidWas \in NoSessionId
    /\ last.pc = "done"
    /\ last.status = 200

HelperVerdict ==
    IF hook.endpoint = "coinbase-commerce"
    THEN verifyWebhookSignatureCoinbase(hook.raw, hook.signature).result
    ELSE IF hook.endpoint = "coinpayments"
    THEN verifyIpnSignature(hook.raw, hook.signature).result
    ELSE verifyWebhookSignatureNowPayments(hook.body, hook.signature).result

\* C28: for the same provider, secret configuration, body and signature, the
\* webhook endpoint accepts the request (does not answer 401) exactly when
\* the provider's verify helper returns true.
C28_EndpointAgreesWithHelper ==
    hook.endpoint \in {"coinbase-commerce", "coinpayments", "nowpayments"}
        => (hook.status /= 401 <=> HelperVerdict)

\* The handlers for which ensureConnected() has resolved and that have not
\* made their call yet.
Ensured == {r \in ReqSlots : proxy.req[r].pc \in {"ensured1", "ensured2"}}

\* The handlers whose remote call is outstanding.
Calling == {r \in ReqSlots : proxy.req[r].pc \in {"call1", "call2"}}

\* C29: in the stdio proxy, once ensureConnected() has resolved for a
\* handler, the Client in `client` has completed its connect; no request is
\* issued on a Client whose connection is not established; and a connect
\* that failed does not leave its Client installed.
C29_OnlyConnectedClientsServe ==
    /\ \A r \in Ensured :
           proxy.client /= 0 /\ proxy.conn[proxy.client] = "connected"
    /\ \A r \in Calling : proxy.req[r].established
    /\ proxy.client /= 0 => proxy.conn[proxy.client] /= "failed"

\* The Client objects the proxy has dropped from its variables.
Discarded(p) == Created(p) \ {p.client}

\* What C30 asks of the steps of the handler of request r.
C30_HandlerStep(r) ==
    LET q == proxy.req[r]
        n == proxy'.req[r]
    IN \* a first call that fails: a Client is created for one retry
       /\ (q.pc = "call1" /\ CallSettles(r, FALSE)) =>
              /\ n.pc = "connect2"
              /\ n.attempts = 1
              /\ proxy'.client \notin Created(proxy)
              /\ proxy.client \in Discarded(proxy')
       \* the retry goes to a Client created after the failure
       /\ (q.pc = "ensured2" /\ RemoteCall(r)) =>
              /\ n.attempts = 2
              /\ n.on > q.floor
       \* no call goes to a discarded Client
       /\ RemoteCall(r) => n.on \notin Discarded(proxy)
       \* a second failure leaves the handler as an error
       /\ (q.pc = "call2" /\ CallSettles(r, FALSE)) =>
              /\ n.pc = "done"
              /\ n.result = "error"
              /\ n.attempts = 2
       \* never a third attempt
       /\ n.attempts <= 2

\* C30: a forwarded tools/call, resources/read or prompts/get that fails is
\* retried once on a newly created connection: a request makes at most two
\* remote attempts, a failure of the second is handed to the caller, and a
\* discarded connection receives no further call.
C30_RetriedOnceOnFreshConnection ==
    [][\A r \in ReqSlots : C30_HandlerStep(r)]_vars

\* A request whose two attempts both failed has ended as an error.
C30_Witness ==
    \E r \in ReqSlots :
        /\ proxy.req[r].pc = "done"
        /\ proxy.req[r].attempts = 2
        /\ proxy.req[r].result = "error"

====
